---- MODULE Spec2Model ----
(***************************************************************************)
(* Model of heartbeat_api.py: the heart-sound analysis pipeline            *)
(* (process_heartbeat) and the session-folder service around it            *)
(* (upload_wav, delete_session, rename_session).                           *)
(*                                                                         *)
(* Numbers.  Python floats are modelled by exact rationals [num, den]      *)
(* with den > 0.  Sample amplitudes are counted in units of 1e-12, the     *)
(* constant of line 49.  For integer Fs the truncations int(0.2 * Fs) and  *)
(* int(Fs * 0.05) and the test d > 0.6 * Fs give in IEEE doubles the same  *)
(* result as in exact arithmetic, so they are computed on integers.        *)
(*                                                                         *)
(* Library calls.  lfilter, filtfilt, np.convolve and find_peaks are       *)
(* modelled by what they do to the shape and the order of the data.  The   *)
(* values of abs(hilbert(.)) are not computable on integers: the envelope  *)
(* is any sequence of the right length out of a bounded family.            *)
(***************************************************************************)
EXTENDS Integers, Sequences, FiniteSets, TLC

VARIABLES
    \* ---- process_heartbeat ----
    pc,          \* position in process_heartbeat
    Fs,          \* sample rate returned by sf.read
    raw,         \* samples returned by sf.read (first channel)
    y,           \* normalized waveform
    duration,    \* len(y) / Fs
    via,         \* which filter call produced y_filt
    y_filt,      \* band-passed waveform
    env,         \* abs(hilbert(y_filt))
    window_len,  \* moving-average length
    env_smooth,  \* smoothed envelope
    threshold,   \* 0.3 * max(env_smooth)
    peaks,       \* raw peaks (0-based indices, as in the code)
    grouped,     \* grouped beats
    gi,          \* number of peaks the grouping loop has consumed
    bpm,         \* rate estimate
    meta,        \* returned record
    written,     \* files of the session folder written so far
    \* ---- session service ----
    results,     \* SAVE_ROOT: folder name -> file name -> content
    uploads,     \* upload requests: position, session id, open file, response
    edits        \* deletes and renames carried out so far

pvars == <<pc, Fs, raw, y, duration, via, y_filt, env, window_len, env_smooth,
           threshold, peaks, grouped, gi, bpm, meta, written>>
svars == <<results, uploads, edits>>
vars == <<pvars, svars>>

-----------------------------------------------------------------------------
(* Bounds of the model *)

\* longest waveform, in samples
MaxLen == 330
\* most bursts in one envelope
MaxSpikes == 3
\* upload requests in one run
MaxUploads == 2
\* deletes and renames carried out in one run
MaxEdits == 2

(* Program constants *)

\* the constant added to a silent waveform, in amplitude units
Eps == 1
\* corner frequencies of the band
LowCut == 20
HighCut == 200
\* filtfilt's default padlen: 3 * max(len(a), len(b)), with 5 taps each
PadLen == 15
\* length of a session id
IdLen == 8

-----------------------------------------------------------------------------
(* Arithmetic *)

Abs(x) == IF x < 0 THEN -x ELSE x
Min2(a, b) == IF a < b THEN a ELSE b
Max2(a, b) == IF a > b THEN a ELSE b
SetMax(S) == CHOOSE m \in S : \A x \in S : x <= m

Frac(n, d) == [num |-> n, den |-> d]
FracLt(a, b) == a.num * b.den < b.num * a.den
FracEq(a, b) == a.num * b.den = b.num * a.den
FracGeq(a, b) == ~FracLt(a, b)

\* round(x, k) for x = n/d >= 0, as the integer x * scale rounded half to even
RoundScaled(n, d, scale) ==
    LET q == (n * scale) \div d
        r == (n * scale) % d
    IN  IF 2 * r > d \/ (2 * r = d /\ q % 2 = 1) THEN q + 1 ELSE q

Reverse(s) == [i \in 1..Len(s) |-> s[Len(s) + 1 - i]]

-----------------------------------------------------------------------------
(* Inputs of process_heartbeat: what sf.read can return *)

SampleRates == {400, 401, 415, 1000}
Lengths == {0, 1, 10, PadLen + 1, 30, MaxLen}
WaveKinds == {"silent", "tone"}

\* sample i (1-based) of a recording, in amplitude units
RawSample(kind, i) == IF kind = "silent" THEN 0 ELSE (((i * 7) % 11) - 5) * 100

RawWave(kind, n) == [i \in 1..n |-> RawSample(kind, i)]

-----------------------------------------------------------------------------
(* Normalizer: lines 47-51 *)

MaxAbs(s) == SetMax({Abs(s[i]) : i \in 1..Len(s)})

\* np.max of an empty array raises ValueError
MaxRaises(s) == Len(s) = 0

\* y = y + 1e-12 when the peak is exactly zero
AvoidAllZero(s) == IF MaxAbs(s) = 0 THEN [i \in 1..Len(s) |-> s[i] + Eps] ELSE s

\* y = y / np.max(np.abs(y))
DivideByPeak(s) == [i \in 1..Len(s) |-> Frac(s[i], MaxAbs(s))]

NormalizeWave(s) == DivideByPeak(AvoidAllZero(s))

-----------------------------------------------------------------------------
(* Bandpass filter: lines 58-64 *)

\* butter(..., fs=Fs) raises ValueError unless 0 < Wn < fs/2 for both corners
ButterRaises(fs) == ~(0 < 2 * LowCut /\ 2 * HighCut < fs)

Tap(x, k) == IF k >= 1 THEN x[k].num ELSE 0

\* lfilter(b, a, x): one output per input sample, zero initial state.  The
\* numerator taps of a 2nd-order Butterworth band-pass are g * (1, 0, -2, 0, 1);
\* the gain g and the feedback taps are irrational and are left out.
Lfilter(x) ==
    [k \in 1..Len(x) |->
        Frac(Tap(x, k) - 2 * Tap(x, k - 2) + Tap(x, k - 4), x[k].den)]

\* filtfilt raises ValueError when len(x) <= padlen
FiltfiltRaises(x) == Len(x) <= PadLen

\* scipy's odd_ext(x, p): p mirrored samples on each side
OddExt(x, p) ==
    LET n == Len(x)
        left == [i \in 1..p |-> Frac(2 * x[1].num - x[p + 2 - i].num, x[1].den)]
        right == [i \in 1..p |-> Frac(2 * x[n].num - x[n - i].num, x[n].den)]
    IN  left \o x \o right

\* filtfilt(b, a, x): pad, filter forward, filter backward, cut the padding
Filtfilt(x) ==
    LET ext == OddExt(x, PadLen)
        fwd == Lfilter(ext)
        bwd == Reverse(Lfilter(Reverse(fwd)))
    IN  SubSeq(bwd, PadLen + 1, Len(bwd) - PadLen)

-----------------------------------------------------------------------------
(* Envelope extractor: lines 71-75 *)

\* abs(hilbert(y_filt)): a non-negative sequence as long as y_filt.  Its values
\* are a floor of 1 with bursts at some of these (0-based) positions.
SpikePositions == {30, 70, 110, 113, 200, 270, 271, 280}
SpikeHeights ==
    (30 :> 90) @@ (70 :> 100) @@ (110 :> 90) @@ (113 :> 60) @@
    (200 :> 5) @@ (270 :> 90) @@ (271 :> 80) @@ (280 :> 20)
EnvShapes == {S \in SUBSET SpikePositions : Cardinality(S) <= MaxSpikes}
HilbertAbs(S, len) ==
    [i \in 1..len |-> IF (i - 1) \in S THEN 1 + SpikeHeights[i - 1] ELSE 1]

\* rounding instead of truncating: int(round(Fs * 0.05))
WindowLenRounded(fs) == Max2(1, RoundScaled(fs, 20, 1))

\* window_len = int(Fs * 0.05); if window_len < 1: window_len = 1
WindowLen(fs) == IF fs \div 20 < 1 THEN 1 ELSE fs \div 20

RECURSIVE SumRange(_, _, _)
SumRange(s, lo, hi) == IF lo > hi THEN 0 ELSE s[lo] + SumRange(s, lo + 1, hi)

\* entry k (0-based) of the full convolution of s with np.ones(w), that is the
\* numerator over w of the full convolution with np.ones(w) / w
FullConv(s, w, k) == SumRange(s, Max2(0, k - w + 1) + 1, Min2(Len(s) - 1, k) + 1)

\* np.convolve(s, np.ones(w) / w, mode="same"): the centered slice of the full
\* convolution, as long as the LONGER of the two arguments
ConvolveSame(s, w) ==
    LET short == Min2(Len(s), w)
        long == Max2(Len(s), w)
        off == (short - 1) \div 2
    IN  [i \in 1..long |-> Frac(FullConv(s, w, i - 1 + off), w)]

-----------------------------------------------------------------------------
(* Beat detector: lines 78-79 *)

\* 0.3 * np.max(env_smooth)
Threshold(x) ==
    LET top == SetMax({x[i].num : i \in 1..Len(x)})
    IN  Frac(3 * top, 10 * x[1].den)

\* a wrong factor: int(0.1 * Fs)
PeakDistanceTenth(fs) == fs \div 10

\* int(0.2 * Fs)
PeakDistance(fs) == (2 * fs) \div 10

\* find_peaks raises ValueError when distance < 1
DistanceRaises(d) == d < 1

\* scipy's _local_maxima_1d, with 0-based indices: sample i is x[i + 1].  The
\* scan stops at every sample that rises above its left neighbour, looks ahead
\* to the next unequal sample (or the last one) and records the midpoint of
\* the flat top when that sample is lower.  The first and the last sample are
\* never maxima.
PlateauEnd(x, i) ==
    CHOOSE a \in (i + 1)..(Len(x) - 1) :
        /\ a = Len(x) - 1 \/ ~FracEq(x[a + 1], x[i + 1])
        /\ \A b \in (i + 1)..(a - 1) : FracEq(x[b + 1], x[i + 1])

IsMaximumStart(x, i) ==
    /\ FracLt(x[i], x[i + 1])
    /\ FracLt(x[PlateauEnd(x, i) + 1], x[i + 1])

RECURSIVE Ascending(_)
Ascending(S) ==
    IF S = {} THEN <<>>
    ELSE LET m == CHOOSE v \in S : \A w \in S : v <= w
         IN  <<m>> \o Ascending(S \ {m})

LocalMaxima(x) ==
    Ascending({(i + PlateauEnd(x, i) - 1) \div 2 :
                  i \in {j \in 1..(Len(x) - 2) : IsMaximumStart(x, j)}})

\* height=threshold: keep the maxima with x[p] >= threshold
SelectByHeight(x, pk, height) ==
    LET Tall(p) == FracGeq(x[p + 1], height)
    IN  SelectSeq(pk, Tall)

\* the peak visited next: the highest not yet visited, the later one on a tie
\* (the scan runs backwards over a stable argsort of the heights)
Highest(x, pk, todo) ==
    CHOOSE j \in todo : \A k \in todo :
        \/ FracLt(x[pk[k] + 1], x[pk[j] + 1])
        \/ (FracEq(x[pk[k] + 1], x[pk[j] + 1]) /\ k <= j)

\* the peaks a kept peak j removes: those nearer than dist on either side
TooClose(pk, j, dist) ==
    {k \in 1..Len(pk) : k # j /\ Abs(pk[k] - pk[j]) < dist}

\* scipy's _select_by_peak_distance: visit the peaks from the highest down;
\* a peak still kept removes every peak nearer than dist
RECURSIVE Suppress(_, _, _, _, _)
Suppress(x, pk, dist, todo, keep) ==
    IF todo = {} THEN keep
    ELSE LET j == Highest(x, pk, todo)
         IN  IF j \in keep
             THEN Suppress(x, pk, dist, todo \ {j}, keep \ TooClose(pk, j, dist))
             ELSE Suppress(x, pk, dist, todo \ {j}, keep)

SelectByPeakDistance(x, pk, dist) ==
    LET keep == Suppress(x, pk, dist, 1..Len(pk), 1..Len(pk))
        Kept(p) == \E k \in keep : pk[k] = p
    IN  SelectSeq(pk, Kept)

\* find_peaks(x, height=height, distance=dist)
FindPeaks(x, height, dist) ==
    SelectByPeakDistance(x, SelectByHeight(x, LocalMaxima(x), height), dist)

-----------------------------------------------------------------------------
(* Beat grouper and rate estimator: lines 82-88 *)

\* the sample rate forgotten: (p - grouped[-1]) > 0.6
KeepPeakSeconds(grp, p, fs) == grp = <<>> \/ 10 * (p - grp[Len(grp)]) > 6

\* not grouped or (p - grouped[-1]) > 0.6 * Fs
KeepPeak(grp, p, fs) == grp = <<>> \/ 10 * (p - grp[Len(grp)]) > 6 * fs

\* an index off by one: grouped.append(int(p) + 1)
AppendBeatShifted(grp, p) == Append(grp, p + 1)

\* grouped.append(int(p))
AppendBeat(grp, p) == Append(grp, p)

\* len(beats) / (duration / 60) if duration > 0 else 0.0
Bpm(beats, dur) ==
    IF dur.num > 0 THEN Frac(Len(beats) * 60 * dur.den, dur.num) ELSE Frac(0, 1)

-----------------------------------------------------------------------------
(* Plot and record: lines 91-135 *)

\* plt.plot(t, s) raises ValueError when t and s differ in length
PlotRaises(n, s) == Len(s) # n

MetaRecord(fs, dur, thr, pk, beats, rate) ==
    [status |-> "ok",
     Fs |-> fs,
     duration_sec |-> RoundScaled(dur.num, dur.den, 100),
     threshold |-> thr,
     raw_peaks |-> Len(pk),
     beats_grouped |-> Len(beats),
     bpm |-> RoundScaled(rate.num, rate.den, 10)]

Raised(where) == [status |-> "raised", at |-> where]
NoMeta == [status |-> "none"]

-----------------------------------------------------------------------------
(* process_heartbeat, step by step *)

PInit ==
    /\ pc = "start"
    /\ Fs \in SampleRates
    /\ \E kind \in WaveKinds, n \in Lengths : raw = RawWave(kind, n)
    /\ y = <<>>
    /\ duration = Frac(0, 1)
    /\ via = "none"
    /\ y_filt = <<>>
    /\ env = <<>>
    /\ window_len = 0
    /\ env_smooth = <<>>
    /\ threshold = Frac(0, 1)
    /\ peaks = <<>>
    /\ grouped = <<>>
    /\ gi = 0
    /\ bpm = Frac(0, 1)
    /\ meta = NoMeta
    /\ written = {}

\* lines 44-55: read, normalize, duration, write original.wav
Normalize ==
    /\ UNCHANGED svars
    /\ pc = "start"
    /\ IF MaxRaises(raw)
       THEN /\ pc' = "raised"
            /\ meta' = Raised("np.max")
            /\ UNCHANGED <<y, duration, written>>
       ELSE /\ y' = NormalizeWave(raw)
            /\ duration' = Frac(Len(raw), Fs)
            /\ written' = written \cup {"original.wav"}
            /\ pc' = "normalized"
            /\ UNCHANGED meta
    /\ UNCHANGED <<Fs, raw, via, y_filt, env, window_len, env_smooth, threshold,
                   peaks, grouped, gi, bpm>>

\* lines 58-68: design the filter, apply it (filtfilt, else lfilter), write
\* filtered.wav
BandpassFilter ==
    /\ UNCHANGED svars
    /\ pc = "normalized"
    /\ IF ButterRaises(Fs)
       THEN /\ pc' = "raised"
            /\ meta' = Raised("butter")
            /\ UNCHANGED <<via, y_filt, written>>
       ELSE /\ via' = IF FiltfiltRaises(y) THEN "lfilter" ELSE "filtfilt"
            /\ y_filt' = IF FiltfiltRaises(y) THEN Lfilter(y) ELSE Filtfilt(y)
            /\ written' = written \cup {"filtered.wav"}
            /\ pc' = "filtered"
            /\ UNCHANGED meta
    /\ UNCHANGED <<Fs, raw, y, duration, env, window_len, env_smooth, threshold,
                   peaks, grouped, gi, bpm>>

\* lines 71-75: envelope and its moving average
Envelope ==
    /\ UNCHANGED svars
    /\ pc = "filtered"
    /\ \E S \in EnvShapes : env' = HilbertAbs(S, Len(y_filt))
    /\ window_len' = WindowLen(Fs)
    /\ env_smooth' = ConvolveSame(env', window_len')
    /\ pc' = "envelope"
    /\ UNCHANGED <<Fs, raw, y, duration, via, y_filt, threshold, peaks, grouped,
                   gi, bpm, meta, written>>

\* lines 78-82: threshold, find_peaks, grouped = []
PeakDetection ==
    /\ UNCHANGED svars
    /\ pc = "envelope"
    /\ threshold' = Threshold(env_smooth)
    /\ IF DistanceRaises(PeakDistance(Fs))
       THEN /\ pc' = "raised"
            /\ meta' = Raised("find_peaks")
            /\ UNCHANGED peaks
       ELSE /\ peaks' = FindPeaks(env_smooth, threshold', PeakDistance(Fs))
            /\ pc' = "grouping"
            /\ UNCHANGED meta
    /\ grouped' = <<>>
    /\ gi' = 0
    /\ UNCHANGED <<Fs, raw, y, duration, via, y_filt, env, window_len,
                   env_smooth, bpm, written>>

\* lines 83-85: one iteration of the grouping loop
GroupStep ==
    /\ UNCHANGED svars
    /\ pc = "grouping"
    /\ gi < Len(peaks)
    /\ grouped' = IF KeepPeak(grouped, peaks[gi + 1], Fs)
                  THEN AppendBeat(grouped, peaks[gi + 1])
                  ELSE grouped
    /\ gi' = gi + 1
    /\ UNCHANGED <<pc, Fs, raw, y, duration, via, y_filt, env, window_len,
                   env_smooth, threshold, peaks, bpm, meta, written>>

\* lines 87-88: the loop is over; beats and bpm
RateEstimate ==
    /\ UNCHANGED svars
    /\ pc = "grouping"
    /\ gi = Len(peaks)
    /\ bpm' = Bpm(grouped, duration)
    /\ pc' = "rated"
    /\ UNCHANGED <<Fs, raw, y, duration, via, y_filt, env, window_len,
                   env_smooth, threshold, peaks, grouped, gi, meta, written>>

\* lines 91-114: the three plots against t = np.arange(len(y)) / Fs, plot.png
PlotAndSave ==
    /\ UNCHANGED svars
    /\ pc = "rated"
    /\ IF \/ PlotRaises(Len(y), y)
          \/ PlotRaises(Len(y), y_filt)
          \/ PlotRaises(Len(y), env_smooth)
       THEN /\ pc' = "raised"
            /\ meta' = Raised("plt.plot")
            /\ UNCHANGED written
       ELSE /\ written' = written \cup {"plot.png"}
            /\ pc' = "plotted"
            /\ UNCHANGED meta
    /\ UNCHANGED <<Fs, raw, y, duration, via, y_filt, env, window_len,
                   env_smooth, threshold, peaks, grouped, gi, bpm>>

\* lines 116-135: the record, meta.json, return
WriteMeta ==
    /\ UNCHANGED svars
    /\ pc = "plotted"
    /\ meta' = MetaRecord(Fs, duration, threshold, peaks, grouped, bpm)
    /\ written' = written \cup {"meta.json"}
    /\ pc' = "done"
    /\ UNCHANGED <<Fs, raw, y, duration, via, y_filt, env, window_len,
                   env_smooth, threshold, peaks, grouped, gi, bpm>>

\* what one whole call does to the session folder: the files it writes, and
\* whether it raises before the record is returned
ProcessOutcome(n, fs) ==
    IF n = 0 THEN [raised |-> TRUE, files |-> {}]
    ELSE IF ButterRaises(fs)
         THEN [raised |-> TRUE, files |-> {"original.wav"}]
    ELSE IF DistanceRaises(PeakDistance(fs)) \/ Max2(n, WindowLen(fs)) # n
         THEN [raised |-> TRUE, files |-> {"original.wav", "filtered.wav"}]
    ELSE [raised |-> FALSE,
          files |-> {"original.wav", "filtered.wav", "plot.png", "meta.json"}]

-----------------------------------------------------------------------------
(* Session ids and names: strings are sequences of one-character strings *)

HexChars == {"0", "1", "2", "3", "4", "5", "6", "7", "8", "9",
             "a", "b", "c", "d", "e", "f"}

\* str.lower(), on the letters the inputs use
LowerChar(c) ==
    CASE c = "A" -> "a" [] c = "B" -> "b" [] c = "C" -> "c" [] c = "D" -> "d"
      [] c = "E" -> "e" [] c = "F" -> "f" [] c = "V" -> "v" [] c = "W" -> "w"
      [] OTHER -> c

Lower(str) == [i \in 1..Len(str) |-> LowerChar(str[i])]

EndsWith(str, suffix) ==
    /\ Len(str) >= Len(suffix)
    /\ SubSeq(str, Len(str) - Len(suffix) + 1, Len(str)) = suffix

\* str[:k]
Take(str, k) == SubSeq(str, 1, Min2(k, Len(str)))

\* safe_session_id raises ValueError on an empty or a non-hex id
SafeSessionIdRaises(sid) == sid = <<>> \/ \E i \in 1..Len(sid) : sid[i] \notin HexChars

\* "".join(c for c in new_id.lower() if c in "0123456789abcdef")
HexOnly(str) ==
    LET IsHex(c) == c \in HexChars
    IN  SelectSeq(Lower(str), IsHex)

\* the cut to 8 characters forgotten: new_clean + sid
NewCleanUncut(new_id, sid) == HexOnly(new_id) \o sid

\* (new_clean + sid)[:8]
NewClean(new_id, sid) == Take(HexOnly(new_id) \o sid, IdLen)

\* uuid.uuid4().hex[:8]
SessionIdOf(hex) == Take(hex, IdLen)

-----------------------------------------------------------------------------
(* The results folder *)

SessionFiles == {"raw_upload.wav", "original.wav", "filtered.wav", "plot.png",
                 "meta.json"}

\* A file's content: by = 0 for no file.  For raw_upload.wav, by is the upload
\* that created the file (it names the open file handles that reach it) and data
\* the upload whose bytes it holds, 0 while empty.  For the other files, by is
\* the upload whose call wrote it and data the upload whose bytes were analysed.
Absent == [by |-> 0, data |-> 0]
NoFiles == [name \in SessionFiles |-> Absent]

Exists(r, sid) == \E f \in r : f.id = sid
FolderOf(r, sid) == CHOOSE f \in r : f.id = sid

\* os.makedirs(sess_folder, exist_ok=True)
MakeDirs(r, sid) ==
    IF Exists(r, sid) THEN r ELSE r \cup {[id |-> sid, files |-> NoFiles]}

PutFiles(r, sid, names, content) ==
    {IF f.id = sid
     THEN [f EXCEPT !.files = [nm \in SessionFiles |->
                                  IF nm \in names THEN content ELSE f.files[nm]]]
     ELSE f : f \in r}

\* open(tmp_path, "wb"): a new empty file, or the existing one emptied
OpenForWrite(r, sid, u) ==
    LET old == FolderOf(r, sid).files["raw_upload.wav"]
    IN  IF old.by = 0 THEN [by |-> u, data |-> 0] ELSE [by |-> old.by, data |-> 0]

\* f.write(...) through an open handle: the bytes reach the file wherever it is
\* now, and nothing when it was unlinked
WriteThrough(r, fd, u) ==
    {IF f.files["raw_upload.wav"].by = fd
     THEN [f EXCEPT !.files["raw_upload.wav"].data = u]
     ELSE f : f \in r}

-----------------------------------------------------------------------------
(* Requests *)

Uuid4Tail == [i \in 1..24 |-> "7"]
Uuid4Hex == {<<"1", "a", "2", "b", "3", "c", "4", "d">> \o Uuid4Tail,
             <<"d", "e", "a", "d", "b", "e", "e", "f">> \o Uuid4Tail}
UploadNames == {<<"h", ".", "W", "A", "V">>, <<"h", ".", "t", "x", "t">>}
UploadWaves == {[n |-> MaxLen, Fs |-> 1000], [n |-> 10, Fs |-> 1000]}
NewIds == {<<>>,
           <<"x", "y", "z", "1">>,
           <<"B", "E", "E", "F">>,
           <<"c", "a", "f", "e", "-", "f", "0", "0", "d", "9">>}
\* session ids a request path can carry besides those of existing folders
OtherPathIds == {<<"a", "b">>, <<"A", "B", "C", "D", "1", "2", "3", "4">>}
PathIds == {f.id : f \in results} \cup OtherPathIds

NewUpload == [pc |-> "new", wav |-> [n |-> 0, Fs |-> 0],
              sid |-> <<>>, fd |-> 0, status |-> 0, data |-> 0]

\* lines 142-152, up to the await on file.read().  Uploads are numbered in the
\* order they arrive.
UploadBegin(u) ==
    /\ UNCHANGED pvars
    /\ uploads[u].pc = "new"
    /\ \A v \in 1..(u - 1) : uploads[v].pc # "new"
    /\ UNCHANGED edits
    /\ \E name \in UploadNames, wav \in UploadWaves, hex \in Uuid4Hex :
          IF ~EndsWith(Lower(name), <<".", "w", "a", "v">>)
          THEN /\ uploads' = [uploads EXCEPT ![u] =
                                 [@ EXCEPT !.pc = "returned", !.status = 400]]
               /\ UNCHANGED results
          ELSE LET sid == SessionIdOf(hex)
                   r1 == MakeDirs(results, sid)
                   opened == OpenForWrite(r1, sid, u)
               IN  /\ results' = PutFiles(r1, sid, {"raw_upload.wav"}, opened)
                   /\ uploads' = [uploads EXCEPT ![u] =
                                     [@ EXCEPT !.pc = "reading", !.wav = wav,
                                               !.sid = sid,
                                               !.fd = opened.by]]

\* lines 152-163, from the await on: write the bytes, process_heartbeat (which
\* runs without suspending), remove raw_upload.wav, return
UploadFinish(u) ==
    LET up == uploads[u]
        r1 == WriteThrough(results, up.fd, u)
        r2 == MakeDirs(r1, up.sid)
        rawfile == FolderOf(r2, up.sid).files["raw_upload.wav"]
        \* sf.read raises on a missing or an empty file
        readable == rawfile.by # 0 /\ rawfile.data # 0
        w == rawfile.data
        out == ProcessOutcome(uploads[w].wav.n, uploads[w].wav.Fs)
        r3 == PutFiles(r2, up.sid, out.files, [by |-> u, data |-> w])
    IN  /\ UNCHANGED pvars
        /\ up.pc = "reading"
        /\ UNCHANGED edits
        /\ IF ~readable
           THEN /\ results' = r2
                /\ uploads' = [uploads EXCEPT ![u] =
                                  [@ EXCEPT !.pc = "returned", !.status = 500]]
           ELSE IF out.raised
           THEN /\ results' = r3
                /\ uploads' = [uploads EXCEPT ![u] =
                                  [@ EXCEPT !.pc = "returned", !.status = 500]]
           ELSE /\ results' = PutFiles(r3, up.sid, {"raw_upload.wav"}, Absent)
                /\ uploads' = [uploads EXCEPT ![u] =
                                  [@ EXCEPT !.pc = "returned", !.status = 200,
                                            !.data = w]]

\* lines 215-228: 400 for a bad id, 404 for no such folder, else rmtree
DeleteSession(session_id) ==
    /\ UNCHANGED pvars
    /\ IF SafeSessionIdRaises(session_id) THEN UNCHANGED <<results, edits>>
       ELSE IF ~Exists(results, session_id) THEN UNCHANGED <<results, edits>>
       ELSE /\ edits < MaxEdits
            /\ results' = results \ {FolderOf(results, session_id)}
            /\ edits' = edits + 1
    /\ UNCHANGED uploads

\* lines 233-255: 400 for a bad id, an empty new_id, fewer than 4 hex characters
\* or a target that exists; 500 when os.rename finds no source; else the rename
RenameSession(session_id, new_id) ==
    LET new_clean == NewClean(new_id, session_id)
    IN  /\ UNCHANGED pvars
        /\ IF SafeSessionIdRaises(session_id) THEN UNCHANGED <<results, edits>>
           ELSE IF new_id = <<>> THEN UNCHANGED <<results, edits>>
           ELSE IF Len(HexOnly(new_id)) < 4 THEN UNCHANGED <<results, edits>>
           ELSE IF Exists(results, new_clean) THEN UNCHANGED <<results, edits>>
           ELSE IF ~Exists(results, session_id) THEN UNCHANGED <<results, edits>>
           ELSE /\ edits < MaxEdits
                /\ results' = {IF f.id = session_id
                                THEN [f EXCEPT !.id = new_clean]
                                ELSE f : f \in results}
                /\ edits' = edits + 1
        /\ UNCHANGED uploads

-----------------------------------------------------------------------------
(* The two systems *)

PIdle ==
    /\ pc = "idle"
    /\ Fs = 0
    /\ raw = <<>>
    /\ y = <<>>
    /\ duration = Frac(0, 1)
    /\ via = "none"
    /\ y_filt = <<>>
    /\ env = <<>>
    /\ window_len = 0
    /\ env_smooth = <<>>
    /\ threshold = Frac(0, 1)
    /\ peaks = <<>>
    /\ grouped = <<>>
    /\ gi = 0
    /\ bpm = Frac(0, 1)
    /\ meta = NoMeta
    /\ written = {}

\* one call of process_heartbeat on one recording
Init ==
    /\ PInit
    /\ results = {}
    /\ uploads = <<>>
    /\ edits = 0

Next ==
    \/ Normalize
    \/ BandpassFilter
    \/ Envelope
    \/ PeakDetection
    \/ GroupStep
    \/ RateEstimate
    \/ PlotAndSave
    \/ WriteMeta

Spec == Init /\ [][Next]_vars

\* the service, from an empty results folder
InitSessions ==
    /\ PIdle
    /\ results = {}
    /\ uploads = [u \in 1..MaxUploads |-> NewUpload]
    /\ edits = 0

NextSessions ==
    \/ \E u \in 1..MaxUploads : UploadBegin(u)
    \/ \E u \in 1..MaxUploads : UploadFinish(u)
    \/ \E sid \in PathIds : DeleteSession(sid)
    \/ \E sid \in PathIds, new_id \in NewIds : RenameSession(sid, new_id)

SpecSessions == InitSessions /\ [][NextSessions]_vars

-----------------------------------------------------------------------------
(* Properties of one call of process_heartbeat (Spec) *)

BandOk == 2 * HighCut < Fs
Silent == Len(raw) >= 1 /\ \A i \in 1..Len(raw) : raw[i] = 0

\* the summary used by upload_wav agrees with the step-by-step call
OutcomeAgrees ==
    pc \in {"done", "raised"} =>
        /\ ProcessOutcome(Len(raw), Fs).raised = (pc = "raised")
        /\ ProcessOutcome(Len(raw), Fs).files = written

\* C1: for every non-empty waveform and every sample rate above 400 Hz the call
\* never raises: no error reaches the caller.
NoErrorReachesCaller == (Len(raw) >= 1 /\ BandOk) => pc # "raised"

\* C2: the filtered waveform (on either filter path) and the smoothed envelope
\* have exactly as many elements as the input waveform.
LengthPreservation ==
    /\ via # "none" => Len(y_filt) = Len(raw)
    /\ env_smooth # <<>> => Len(env_smooth) = Len(raw)

\* C3 as stated: consecutive raw peaks are at least 0.2 * Fs samples apart.
RawPeakSpacing ==
    \A k \in 1..(Len(peaks) - 1) : 10 * (peaks[k + 1] - peaks[k]) >= 2 * Fs

\* C3 as amended: consecutive raw peaks are at least int(0.2 * Fs) samples
\* apart, the product truncated to an integer.
RawPeakSpacingTruncated ==
    \A k \in 1..(Len(peaks) - 1) : peaks[k + 1] - peaks[k] >= Fs \div 5

\* C3 witness: two neighbouring raw peaks exactly int(0.2 * Fs) apart at a
\* sample rate that is no multiple of 5.
RawPeaksAtTruncatedDistance ==
    /\ Fs % 5 # 0
    /\ \E k \in 1..(Len(peaks) - 1) : peaks[k + 1] - peaks[k] = Fs \div 5

\* C4: after every iteration of the grouping loop, and at its end, consecutive
\* grouped beats are more than 0.6 * Fs samples apart.
GroupedBeatSpacing ==
    \A k \in 1..(Len(grouped) - 1) : 10 * (grouped[k + 1] - grouped[k]) > 6 * Fs

\* C4 witness: the loop has kept two beats and dropped a peak between them.
GroupedTwoDroppedOne ==
    /\ pc = "grouping"
    /\ Len(grouped) >= 2
    /\ gi > Len(grouped)

\* C5: the grouped beats are an ascending, duplicate-free subsequence of the
\* raw peaks consumed so far, and the record has beats_grouped <= raw_peaks.
GroupedSubsequence ==
    /\ \A k \in 1..(Len(peaks) - 1) : peaks[k] < peaks[k + 1]
    /\ \A k \in 1..(Len(grouped) - 1) : grouped[k] < grouped[k + 1]
    /\ \A k \in 1..Len(grouped) : \E j \in 1..gi : peaks[j] = grouped[k]
    /\ Len(grouped) <= gi
    /\ meta.status = "ok" => meta.beats_grouped <= meta.raw_peaks

\* C5 witness: a returned record with at least two beats and fewer beats than
\* raw peaks.
RecordWithFewerBeats ==
    /\ pc = "done"
    /\ meta.status = "ok"
    /\ meta.beats_grouped >= 2
    /\ meta.beats_grouped < meta.raw_peaks

\* C6: bpm * (duration / 60) equals the grouped beat count, and a waveform of
\* zero samples yields bpm = 0 instead of an error.
BpmConsistency ==
    /\ pc \in {"rated", "plotted", "done"} =>
          IF duration.num > 0
          THEN bpm.num * duration.num = 60 * Len(grouped) * bpm.den * duration.den
          ELSE bpm.num = 0
    /\ (Len(raw) = 0 /\ BandOk) => pc # "raised"

\* C7: an all-zero waveform normalizes without a division by zero to samples
\* that are negligibly small (here: at most a thousandth in magnitude).
SilentStaysNearZero ==
    (Silent /\ y # <<>>) =>
        \A i \in 1..Len(y) : y[i].den # 0 /\ 1000 * Abs(y[i].num) <= Abs(y[i].den)

\* C8 as stated: the window length is max(1, round(Fs * 0.05)).
WindowLenIsRounded ==
    env_smooth # <<>> => window_len = Max2(1, RoundScaled(Fs, 20, 1))

\* C8 as amended: the window length is max(1, int(Fs * 0.05)), the product
\* truncated to an integer.
WindowLenIsTruncated ==
    env_smooth # <<>> => window_len = Max2(1, Fs \div 20)

\* C8 witness: the window was computed at a sample rate where rounding and
\* truncating differ.
WindowWhereRoundingDiffers ==
    /\ env_smooth # <<>>
    /\ Fs % 20 > 10

-----------------------------------------------------------------------------
(* Properties of the session service (SpecSessions) *)

Ids(r) == {f.id : f \in r}

\* C9: an upload of a recording that can be analysed is not made to fail by
\* another request, and the record it returns is that of its own recording.
UploadsIndependent ==
    \A u \in 1..MaxUploads :
        (/\ uploads[u].pc = "returned"
         /\ uploads[u].status # 400
         /\ ~ProcessOutcome(uploads[u].wav.n, uploads[u].wav.Fs).raised)
        => (uploads[u].status = 200 /\ uploads[u].data = u)

ValidIds ==
    \A f \in results :
        /\ Len(f.id) = IdLen
        /\ \A i \in 1..Len(f.id) : f.id[i] \in HexChars
        /\ ~SafeSessionIdRaises(f.id)

\* a step that gives a folder a new name derives it from a submitted new_id and
\* the old name
RenameYields ==
    \A f \in results' :
        (f.id \notin Ids(results) /\ uploads' = uploads) =>
            \E g \in results, new_id \in NewIds :
                /\ g.id \notin Ids(results')
                /\ g.files = f.files
                /\ Len(HexOnly(new_id)) >= 4
                /\ f.id = SubSeq(HexOnly(new_id) \o g.id, 1, 8)

\* C10: from an empty results folder, every session folder name is always 8
\* lowercase hex characters, accepted by safe_session_id, and every rename
\* yields the hex characters of new_id followed by the old id, cut to 8.
SessionIdsStayValid == [][RenameYields]_vars /\ []ValidIds

\* C10 witness: a folder renamed with a 4-character new_id, filled up with the
\* first 4 characters of its old id.
RenamedWithPadding ==
    \E f \in results, hex \in Uuid4Hex :
        f.id = <<"b", "e", "e", "f">> \o SubSeq(hex, 1, 4)

====
